---------------------------- MODULE Spec2Model ----------------------------
(***************************************************************************)
(* Model of custom_components/truenas/sensor.py: the sensor adapters of    *)
(* the TrueNAS integration.                                                *)
(*                                                                         *)
(*   Spec          TrueNASClousyncSensor.start / .stop, run as cooperative *)
(*                 tasks that suspend at every executor hand-off           *)
(*   SpecSnapshot  TrueNASDatasetSensor.snapshot                           *)
(*   SpecUnit      TrueNASSensor.native_unit_of_measurement                *)
(*                                                                         *)
(* Python values are tagged records: None, str, dict (a function from key  *)
(* to value) and list (a sequence).                                        *)
(***************************************************************************)
EXTENDS Integers, Sequences, FiniteSets, TLC

VARIABLES
    data,       \* self._data of the cloud-sync sensor: the coordinator's cached record
    remote,     \* what the appliance answers to cloudsync.query for this job id
    pc,         \* pc[t]: where invocation t stands
    op,         \* op[t]: the method invocation t runs ("start" / "stop")
    jobs,       \* jobs[t]: the local `jobs` of invocation t (the lookup result)
    calls,      \* calls[t]: the remote calls invocation t has handed to the executor
    inflight,   \* inflight[t]: indexes into calls[t] the executor has not completed
    log,        \* log[t]: what invocation t has written to _LOGGER
    outcome,    \* outcome[t]: "pending", "returned" or "raised"
    everActive  \* history: the remote job has been WAITING or RUNNING at some point

VARIABLES
    now,        \* the wall clock read by datetime.now()
    ds_data,    \* self._data of the dataset sensor
    s_pc,       \* s_pc[t]: where snapshot invocation t stands
    s_payload,  \* s_payload[t]: the local `payload`
    s_result,   \* s_result[t]: the local `result`
    s_calls,    \* s_calls[t]: the remote calls snapshot invocation t has issued
    s_second,   \* s_second[t]: what the second await evaluated to (the code drops it)
    s_outcome   \* s_outcome[t]: "pending", "returned" or "raised"

VARIABLES
    u_desc,     \* entity_description.native_unit_of_measurement
    u_data,     \* self._data of the plain sensor
    u_read      \* what the property returned for the current record (Unbound: not read)

csVars   == <<data, remote, pc, op, jobs, calls, inflight, log, outcome, everActive>>
snapVars == <<now, ds_data, s_pc, s_payload, s_result, s_calls, s_second, s_outcome>>
unitVars == <<u_desc, u_data, u_read>>
vars     == <<csVars, snapVars, unitVars>>

---------------------------------------------------------------------------
(* Bounds *)

NumTasks  == 2      \* concurrent start/stop invocations on one sensor
NumJobIds == 2      \* job identifiers a sensor may be bound to
MaxClock  == 2      \* microseconds the wall clock may advance

Tasks  == 1..NumTasks
JobIds == 1..NumJobIds

---------------------------------------------------------------------------
(* Python values *)

None    == [type |-> "NoneType"]
Str(s)  == [type |-> "str", val |-> s]
Dict(f) == [type |-> "dict", val |-> f]
List(s) == [type |-> "list", val |-> s]

\* a local variable that has not been assigned yet
Unbound == [type |-> "unbound"]

isinstance(v, ty) == v.type = ty

\* d.get(k): the value under k, None when k is absent
DictGet(d, k) == IF k \in DOMAIN d.val THEN d.val[k] ELSE None

\* truth value of a list: non-empty
Truthy(v) == Len(v.val) > 0

ActiveStates == {Str("WAITING"), Str("RUNNING")}

---------------------------------------------------------------------------
(* The appliance's cloud-sync job, as cloudsync.query reports it *)

JobStates == {"WAITING", "RUNNING", "SUCCESS", "ABORTED"}

JobRecord(id, job) == Dict([id |-> id, job |-> job])

\* every answer shape the lookup can produce for job id
QueryResults(id) ==
    {None,                                        \* not a list
     List(<<>>),                                  \* no job matches
     List(<<Str("garbage")>>),                    \* first record is not a mapping
     List(<<Dict([id |-> id])>>),                 \* record without a `job` key
     List(<<JobRecord(id, None)>>),               \* job never ran: `job` is null
     List(<<JobRecord(id, Dict(<<>>))>>)}         \* job mapping without `state`
    \cup {List(<<JobRecord(id, Dict([state |-> Str(s)]))>>) : s \in JobStates}

HasJob(r) ==
    /\ isinstance(r, "list") /\ Truthy(r)
    /\ isinstance(r.val[1], "dict") /\ "job" \in DOMAIN r.val[1].val

RemoteState(r) ==
    IF HasJob(r) /\ isinstance(r.val[1].val["job"], "dict")
    THEN DictGet(r.val[1].val["job"], "state")
    ELSE None

RemoteActive(r) == RemoteState(r) \in ActiveStates

WithState(r, s) == List(<<JobRecord(r.val[1].val["id"], Dict([state |-> Str(s)]))>>)

\* effect of cloudsync.sync on the appliance: an existing, inactive job is queued
SyncEffect(r) == IF HasJob(r) /\ ~RemoteActive(r) THEN WithState(r, "WAITING") ELSE r

\* effect of cloudsync.abort on the appliance: an active job is aborted
AbortEffect(r) == IF RemoteActive(r) THEN WithState(r, "ABORTED") ELSE r


---------------------------------------------------------------------------
(* TrueNASClousyncSensor: the decision logic shared by start and stop *)

\* tmp_job = jobs[0] if isinstance(jobs, list) and jobs else None
tmp_job(j) == IF isinstance(j, "list") /\ Truthy(j) THEN j.val[1] ELSE None

\* variant: the `"job" not in tmp_job` test is left out
Invalid_noJobCheck(tj) == ~isinstance(tj, "dict")

\* variant: a `job` that is null or carries no `state` is rejected as well
Invalid_strict(tj) ==
    \/ ~isinstance(tj, "dict")
    \/ "job" \notin DOMAIN tj.val
    \/ ~isinstance(tj.val["job"], "dict")
    \/ "state" \notin DOMAIN tj.val["job"].val

\* if not isinstance(tmp_job, dict) or "job" not in tmp_job
Invalid(tj) == ~isinstance(tj, "dict") \/ "job" \notin DOMAIN tj.val

\* job_state = tmp_job.get("job")
job_state(tj) == DictGet(tj, "job")

\* state = job_state.get("state") if isinstance(job_state, dict) else None
state(tj) ==
    IF isinstance(job_state(tj), "dict") THEN DictGet(job_state(tj), "state") ELSE None

\* variant: only RUNNING counts as active
Active_onlyRunning(st) == st = Str("RUNNING")

\* state in ["WAITING", "RUNNING"]
Active(st) == st \in ActiveStates

\* the filter argument of cloudsync.query: [[["id", "=", id]]]
QueryArgs(id) == <<<< <<"id", "=", id>> >>>>

Call(m, a) == [method |-> m, args |-> a]

LogEntry(lvl, m, a) == [level |-> lvl, msg |-> m, args |-> a]

\* hand one blocking api.query call to the executor and suspend on it
Dispatch(t, c, nextpc) ==
    /\ calls' = [calls EXCEPT ![t] = Append(@, c)]
    /\ inflight' = [inflight EXCEPT ![t] = @ \cup {Len(calls[t]) + 1}]
    /\ pc' = [pc EXCEPT ![t] = nextpc]

\* return from the coroutine without issuing anything further
Return(t) ==
    /\ pc' = [pc EXCEPT ![t] = "done"]
    /\ outcome' = [outcome EXCEPT ![t] = "returned"]
    /\ UNCHANGED <<calls, inflight>>

---------------------------------------------------------------------------
(* start and stop up to their first await: the lookup is handed over *)

\* variant: the lookup and the sync are handed over together, nothing is awaited between
start_begin_eager(t) ==
    /\ pc[t] = "idle"
    /\ op' = [op EXCEPT ![t] = "start"]
    /\ calls' = [calls EXCEPT ![t] = <<Call("cloudsync.query", QueryArgs(data.id)),
                                       Call("cloudsync.sync", <<data.id>>)>>]
    /\ inflight' = [inflight EXCEPT ![t] = {1, 2}]
    /\ pc' = [pc EXCEPT ![t] = "await_mutate"]
    /\ UNCHANGED <<data, remote, jobs, log, outcome, everActive>>

start_begin(t) ==
    /\ pc[t] = "idle"
    /\ op' = [op EXCEPT ![t] = "start"]
    /\ Dispatch(t, Call("cloudsync.query", QueryArgs(data.id)), "await_query")
    /\ UNCHANGED <<data, remote, jobs, log, outcome, everActive>>

stop_begin(t) ==
    /\ pc[t] = "idle"
    /\ op' = [op EXCEPT ![t] = "stop"]
    /\ Dispatch(t, Call("cloudsync.query", QueryArgs(data.id)), "await_query")
    /\ UNCHANGED <<data, remote, jobs, log, outcome, everActive>>

\* the executor completes cloudsync.query: the task gets the appliance's answer
query_returns(t) ==
    /\ pc[t] = "await_query"
    /\ jobs' = [jobs EXCEPT ![t] = remote]
    /\ inflight' = [inflight EXCEPT ![t] = @ \ {Len(calls[t])}]
    /\ pc' = [pc EXCEPT ![t] = "resume"]
    /\ UNCHANGED <<data, remote, op, calls, log, outcome, everActive>>

\* the executor's call fails at the transport: the exception leaves the coroutine
call_raises(t) ==
    /\ pc[t] \in {"await_query", "await_mutate"}
    /\ inflight' = [inflight EXCEPT ![t] = @ \ {Len(calls[t])}]
    /\ pc' = [pc EXCEPT ![t] = "done"]
    /\ outcome' = [outcome EXCEPT ![t] = "raised"]
    /\ UNCHANGED <<data, remote, op, jobs, calls, log, everActive>>

---------------------------------------------------------------------------
(* start and stop from the lookup's return to the next await or the return *)

\* variant: the decision reads the cached record's state instead of the lookup's
start_resume_cached(t) ==
    /\ pc[t] = "resume" /\ op[t] = "start"
    /\ IF Invalid(tmp_job(jobs[t]))
       THEN /\ log' = [log EXCEPT ![t] = Append(@,
                  LogEntry("error", "Clousync job %s (%s) invalid",
                           <<data.description, data.id>>))]
            /\ Return(t)
       ELSE IF Active(data.state)
       THEN /\ log' = [log EXCEPT ![t] = Append(@,
                  LogEntry("warning", "Clousync job %s (%s) is already running",
                           <<data.description, data.id>>))]
            /\ Return(t)
       ELSE /\ Dispatch(t, Call("cloudsync.sync", <<data.id>>), "await_mutate")
            /\ UNCHANGED <<log, outcome>>
    /\ UNCHANGED <<data, remote, op, jobs, everActive>>

start_resume(t) ==
    /\ pc[t] = "resume" /\ op[t] = "start"
    /\ IF Invalid(tmp_job(jobs[t]))
       THEN /\ log' = [log EXCEPT ![t] = Append(@,
                  LogEntry("error", "Clousync job %s (%s) invalid",
                           <<data.description, data.id>>))]
            /\ Return(t)
       ELSE IF Active(state(tmp_job(jobs[t])))
       THEN /\ log' = [log EXCEPT ![t] = Append(@,
                  LogEntry("warning", "Clousync job %s (%s) is already running",
                           <<data.description, data.id>>))]
            /\ Return(t)
       ELSE /\ Dispatch(t, Call("cloudsync.sync", <<data.id>>), "await_mutate")
            /\ UNCHANGED <<log, outcome>>
    /\ UNCHANGED <<data, remote, op, jobs, everActive>>

\* variant: start's guard pasted into stop (abort only when the job is not active)
stop_resume_inverted(t) ==
    /\ pc[t] = "resume" /\ op[t] = "stop"
    /\ IF Invalid(tmp_job(jobs[t]))
       THEN /\ log' = [log EXCEPT ![t] = Append(@,
                  LogEntry("error", "Clousync job %s (%s) invalid",
                           <<data.description, data.id>>))]
            /\ Return(t)
       ELSE IF Active(state(tmp_job(jobs[t])))
       THEN /\ log' = [log EXCEPT ![t] = Append(@,
                  LogEntry("warning", "Clousync job %s (%s) is not running",
                           <<data.description, data.id>>))]
            /\ Return(t)
       ELSE /\ Dispatch(t, Call("cloudsync.abort", <<data.id>>), "await_mutate")
            /\ UNCHANGED <<log, outcome>>
    /\ UNCHANGED <<data, remote, op, jobs, everActive>>

\* variant: the not-running guard is missing, every valid record is aborted
stop_resume_unguarded(t) ==
    /\ pc[t] = "resume" /\ op[t] = "stop"
    /\ IF Invalid(tmp_job(jobs[t]))
       THEN /\ log' = [log EXCEPT ![t] = Append(@,
                  LogEntry("error", "Clousync job %s (%s) invalid",
                           <<data.description, data.id>>))]
            /\ Return(t)
       ELSE /\ Dispatch(t, Call("cloudsync.abort", <<data.id>>), "await_mutate")
            /\ UNCHANGED <<log, outcome>>
    /\ UNCHANGED <<data, remote, op, jobs, everActive>>

stop_resume(t) ==
    /\ pc[t] = "resume" /\ op[t] = "stop"
    /\ IF Invalid(tmp_job(jobs[t]))
       THEN /\ log' = [log EXCEPT ![t] = Append(@,
                  LogEntry("error", "Clousync job %s (%s) invalid",
                           <<data.description, data.id>>))]
            /\ Return(t)
       ELSE IF ~Active(state(tmp_job(jobs[t])))
       THEN /\ log' = [log EXCEPT ![t] = Append(@,
                  LogEntry("warning", "Clousync job %s (%s) is not running",
                           <<data.description, data.id>>))]
            /\ Return(t)
       ELSE /\ Dispatch(t, Call("cloudsync.abort", <<data.id>>), "await_mutate")
            /\ UNCHANGED <<log, outcome>>
    /\ UNCHANGED <<data, remote, op, jobs, everActive>>

\* the executor completes cloudsync.sync / cloudsync.abort; the coroutine ends
mutate_returns(t) ==
    /\ pc[t] = "await_mutate"
    /\ remote' = IF calls[t][Len(calls[t])].method = "cloudsync.sync"
                 THEN SyncEffect(remote) ELSE AbortEffect(remote)
    /\ everActive' = (everActive \/ RemoteActive(remote'))
    /\ inflight' = [inflight EXCEPT ![t] = @ \ {Len(calls[t])}]
    /\ pc' = [pc EXCEPT ![t] = "done"]
    /\ outcome' = [outcome EXCEPT ![t] = "returned"]
    /\ UNCHANGED <<data, op, jobs, calls, log>>

---------------------------------------------------------------------------
(* Environment of the cloud-sync sensor *)

\* the appliance runs the job: WAITING -> RUNNING -> SUCCESS
JobProgress ==
    /\ RemoteActive(remote)
    /\ remote' = WithState(remote,
                    IF RemoteState(remote) = Str("WAITING") THEN "RUNNING" ELSE "SUCCESS")
    /\ UNCHANGED <<data, pc, op, jobs, calls, inflight, log, outcome, everActive>>

\* the coordinator's poll replaces the cached record's state by the live one
CoordinatorRefresh ==
    /\ data.state # RemoteState(remote)
    /\ data' = [data EXCEPT !.state = RemoteState(remote)]
    /\ UNCHANGED <<remote, pc, op, jobs, calls, inflight, log, outcome, everActive>>

---------------------------------------------------------------------------
(* Specification of the cloud-sync sensor *)

CloudsyncIdle ==
    /\ remote = List(<<>>)
    /\ data = [id |-> 1, description |-> "backup", state |-> None]
    /\ everActive = FALSE
    /\ pc = [t \in Tasks |-> "idle"]
    /\ op = [t \in Tasks |-> "none"]
    /\ jobs = [t \in Tasks |-> Unbound]
    /\ calls = [t \in Tasks |-> <<>>]
    /\ inflight = [t \in Tasks |-> {}]
    /\ log = [t \in Tasks |-> <<>>]
    /\ outcome = [t \in Tasks |-> "pending"]

SnapIdle ==
    /\ now = 0
    /\ ds_data = [name |-> "tank/data"]
    /\ s_pc = [t \in Tasks |-> "idle"]
    /\ s_payload = [t \in Tasks |-> Unbound]
    /\ s_result = [t \in Tasks |-> Unbound]
    /\ s_calls = [t \in Tasks |-> <<>>]
    /\ s_second = [t \in Tasks |-> Unbound]
    /\ s_outcome = [t \in Tasks |-> "pending"]

UnitIdle ==
    /\ u_desc = None
    /\ u_data = Dict(<<>>)
    /\ u_read = Unbound

Init ==
    /\ \E id \in JobIds : \E r \in QueryResults(id) :
          /\ remote = r
          /\ data = [id |-> id, description |-> "backup", state |-> RemoteState(r)]
          /\ everActive = RemoteActive(r)
    /\ pc = [t \in Tasks |-> "idle"]
    /\ op = [t \in Tasks |-> "none"]
    /\ jobs = [t \in Tasks |-> Unbound]
    /\ calls = [t \in Tasks |-> <<>>]
    /\ inflight = [t \in Tasks |-> {}]
    /\ log = [t \in Tasks |-> <<>>]
    /\ outcome = [t \in Tasks |-> "pending"]
    /\ SnapIdle
    /\ UnitIdle

Next ==
    \/ \E t \in Tasks : start_begin(t) /\ UNCHANGED <<snapVars, unitVars>>
    \/ \E t \in Tasks : stop_begin(t) /\ UNCHANGED <<snapVars, unitVars>>
    \/ \E t \in Tasks : query_returns(t) /\ UNCHANGED <<snapVars, unitVars>>
    \/ \E t \in Tasks : call_raises(t) /\ UNCHANGED <<snapVars, unitVars>>
    \/ \E t \in Tasks : start_resume(t) /\ UNCHANGED <<snapVars, unitVars>>
    \/ \E t \in Tasks : stop_resume(t) /\ UNCHANGED <<snapVars, unitVars>>
    \/ \E t \in Tasks : mutate_returns(t) /\ UNCHANGED <<snapVars, unitVars>>
    \/ JobProgress /\ UNCHANGED <<snapVars, unitVars>>
    \/ CoordinatorRefresh /\ UNCHANGED <<snapVars, unitVars>>

Spec == Init /\ [][Next]_vars

---------------------------------------------------------------------------
(* TrueNASDatasetSensor.snapshot *)

DatasetNames == {"tank/data", "tank/vm"}

\* datetime.isoformat(sep="_", timespec="microseconds") of the instant n microseconds
\* after the model's epoch: date, "_", time, ".", six digits of microseconds
RECURSIVE ZeroPad(_, _)
ZeroPad(str, width) == IF Len(str) >= width THEN str ELSE ZeroPad("0" \o str, width)

isoformat(n) == "2026-11-01_12:00:00." \o ZeroPad(ToString(n), 6)

\* what api.query can answer to a snapshot create call
SnapResults ==
    {None,                                             \* not a mapping
     Dict([id |-> Str("tank/data@custom")]),           \* a mapping without "error"
     Dict([error |-> Str("Method call error")])}       \* an in-band error

\* variant: any mapping counts as a failure
InBandError_anyDict(r) == isinstance(r, "dict")

\* isinstance(result, dict) and "error" in result
InBandError(r) == isinstance(r, "dict") /\ "error" \in DOMAIN r.val

\* up to the first await: the payload is built and the primary call handed over
snapshot_begin(t) ==
    /\ s_pc[t] = "idle"
    /\ LET ts == isoformat(now)
           payload == Dict([dataset |-> Str(ds_data.name), name |-> Str("custom-" \o ts)])
       IN /\ s_payload' = [s_payload EXCEPT ![t] = payload]
          /\ s_calls' = [s_calls EXCEPT ![t] = Append(@, Call("pool.snapshot.create", payload))]
    /\ s_pc' = [s_pc EXCEPT ![t] = "await_primary"]
    /\ UNCHANGED <<now, ds_data, s_result, s_second, s_outcome>>

\* the executor completes pool.snapshot.create
primary_returns(t) ==
    /\ s_pc[t] = "await_primary"
    /\ \E r \in SnapResults : s_result' = [s_result EXCEPT ![t] = r]
    /\ s_pc' = [s_pc EXCEPT ![t] = "resume"]
    /\ UNCHANGED <<now, ds_data, s_payload, s_calls, s_second, s_outcome>>

\* a call fails at the transport: the exception leaves the coroutine
snapshot_call_raises(t) ==
    /\ s_pc[t] \in {"await_primary", "await_secondary"}
    /\ s_pc' = [s_pc EXCEPT ![t] = "done"]
    /\ s_outcome' = [s_outcome EXCEPT ![t] = "raised"]
    /\ UNCHANGED <<now, ds_data, s_payload, s_result, s_calls, s_second>>

\* from the primary call's return to the second await or the return
snapshot_resume(t) ==
    /\ s_pc[t] = "resume"
    /\ IF InBandError(s_result[t])
       THEN /\ s_calls' = [s_calls EXCEPT ![t] =
                              Append(@, Call("zfs.snapshot.create", s_payload[t]))]
            /\ s_pc' = [s_pc EXCEPT ![t] = "await_secondary"]
            /\ UNCHANGED s_outcome
       ELSE /\ s_pc' = [s_pc EXCEPT ![t] = "done"]
            /\ s_outcome' = [s_outcome EXCEPT ![t] = "returned"]
            /\ UNCHANGED s_calls
    /\ UNCHANGED <<now, ds_data, s_payload, s_result, s_second>>

\* the executor completes zfs.snapshot.create; whatever it answers, the coroutine ends
secondary_returns(t) ==
    /\ s_pc[t] = "await_secondary"
    /\ \E r \in SnapResults : s_second' = [s_second EXCEPT ![t] = r]
    /\ s_pc' = [s_pc EXCEPT ![t] = "done"]
    /\ s_outcome' = [s_outcome EXCEPT ![t] = "returned"]
    /\ UNCHANGED <<now, ds_data, s_payload, s_result, s_calls>>

\* the wall clock advances
Tick ==
    /\ now < MaxClock
    /\ now' = now + 1
    /\ UNCHANGED <<ds_data, s_pc, s_payload, s_result, s_calls, s_second, s_outcome>>

InitSnapshot ==
    /\ now = 0
    /\ ds_data \in [name : DatasetNames]
    /\ s_pc = [t \in Tasks |-> "idle"]
    /\ s_payload = [t \in Tasks |-> Unbound]
    /\ s_result = [t \in Tasks |-> Unbound]
    /\ s_calls = [t \in Tasks |-> <<>>]
    /\ s_second = [t \in Tasks |-> Unbound]
    /\ s_outcome = [t \in Tasks |-> "pending"]
    /\ CloudsyncIdle
    /\ UnitIdle

NextSnapshot ==
    \/ \E t \in Tasks : snapshot_begin(t) /\ UNCHANGED <<csVars, unitVars>>
    \/ \E t \in Tasks : primary_returns(t) /\ UNCHANGED <<csVars, unitVars>>
    \/ \E t \in Tasks : snapshot_call_raises(t) /\ UNCHANGED <<csVars, unitVars>>
    \/ \E t \in Tasks : snapshot_resume(t) /\ UNCHANGED <<csVars, unitVars>>
    \/ \E t \in Tasks : secondary_returns(t) /\ UNCHANGED <<csVars, unitVars>>
    \/ Tick /\ UNCHANGED <<csVars, unitVars>>

SpecSnapshot == InitSnapshot /\ [][NextSnapshot]_vars

---------------------------------------------------------------------------
(* TrueNASSensor.native_unit_of_measurement *)

\* str.startswith
startswith(s, prefix) == Len(s) >= Len(prefix) /\ SubSeq(s, 1, Len(prefix)) = prefix

\* s[n:]
SliceFrom(s, n) == IF n >= Len(s) THEN "" ELSE SubSeq(s, n + 1, Len(s))

\* truth value of an optional string: None and "" are false
StrTruthy(v) == isinstance(v, "str") /\ v.val # ""

\* variant: the fallback returns the stripped field name instead of the configured string
native_unit_of_measurement_stripped(desc, record) ==
    IF StrTruthy(desc)
    THEN IF startswith(desc.val, "data__")
         THEN LET uom == SliceFrom(desc.val, 6)
              IN IF uom \in DOMAIN record.val THEN record.val[uom] ELSE Str(uom)
         ELSE desc
    ELSE None

native_unit_of_measurement(desc, record) ==
    IF StrTruthy(desc)
    THEN IF startswith(desc.val, "data__") /\ SliceFrom(desc.val, 6) \in DOMAIN record.val
         THEN record.val[SliceFrom(desc.val, 6)]
         ELSE desc
    ELSE None

\* the unit strings an entity description may carry
UnitDescriptions ==
    {None, Str(""), Str("GiB"), Str("data_"), Str("data_unit"),
     Str("data__"), Str("data__unit"), Str("data__missing")}

RecordKeys == {"", "unit", "value"}

RecordValues == {Str("GiB"), Str("TiB")}

\* the cached records: every mapping from some of the keys to the values
Records == UNION {{Dict(f) : f \in [K -> RecordValues]} : K \in SUBSET RecordKeys}

\* the host framework reads the property
ReadUnit ==
    /\ u_read' = native_unit_of_measurement(u_desc, u_data)
    /\ UNCHANGED <<u_desc, u_data>>

\* the coordinator's poll replaces the cached record
RefreshRecord ==
    /\ \E r \in Records : u_data' = r /\ r # u_data
    /\ u_read' = Unbound
    /\ UNCHANGED u_desc

InitUnit ==
    /\ u_desc \in UnitDescriptions
    /\ u_data \in Records
    /\ u_read = Unbound
    /\ CloudsyncIdle
    /\ SnapIdle

NextUnit ==
    \/ ReadUnit /\ UNCHANGED <<csVars, snapVars>>
    \/ RefreshRecord /\ UNCHANGED <<csVars, snapVars>>

SpecUnit == InitUnit /\ [][NextUnit]_vars

---------------------------------------------------------------------------
(* Vocabulary of the cloud-sync claims *)

\* invocation t has had its lookup answered
LookedUp(t) == jobs[t] # Unbound

\* invocation t has run the code that follows the lookup
Resumed(t) == LookedUp(t) /\ pc[t] \in {"await_mutate", "done"}

\* the job state the lookup of invocation t reported
LookupState(t) == RemoteState(jobs[t])

NumCalls(t, m) == Cardinality({i \in 1..Len(calls[t]) : calls[t][i].method = m})

Levels(t) == [i \in 1..Len(log[t]) |-> log[t][i].level]

NoMutatingCall(t) == NumCalls(t, "cloudsync.sync") = 0 /\ NumCalls(t, "cloudsync.abort") = 0

\* the lookup of t reported a record with a `job` key whose state is not usable
StatelessJob(t) ==
    /\ HasJob(jobs[t])
    /\ \/ ~isinstance(jobs[t].val[1].val["job"], "dict")
       \/ "state" \notin DOMAIN jobs[t].val[1].val["job"].val

---------------------------------------------------------------------------
\* C1: a start whose lookup reports WAITING or RUNNING issues no cloudsync.sync and
\* no cloudsync.abort, logs exactly one warning and no error, and returns normally.
C1_StartActiveNoop ==
    \A t \in Tasks :
        (op[t] = "start" /\ Resumed(t) /\ LookupState(t) \in {Str("WAITING"), Str("RUNNING")})
        => /\ NoMutatingCall(t)
           /\ Levels(t) = <<"warning">>
           /\ pc[t] = "done" /\ outcome[t] = "returned"

C1_Witness ==
    \E t \in Tasks :
        /\ op[t] = "start" /\ Resumed(t) /\ LookupState(t) = Str("WAITING")
        /\ Levels(t) = <<"warning">>

\* C2: a start or stop whose lookup reports no usable job record (not a list, an empty
\* list, a first record that is no mapping or has no `job` key) logs one error naming
\* the job, issues no mutating call and returns normally; start and stop do the same.
C2_InvalidLookup ==
    \A t \in Tasks :
        (Resumed(t) /\ ~HasJob(jobs[t]))
        => /\ NoMutatingCall(t)
           /\ log[t] = <<LogEntry("error", "Clousync job %s (%s) invalid",
                                  <<data.description, data.id>>)>>
           /\ pc[t] = "done" /\ outcome[t] = "returned"

C2_Witness ==
    \E t, u \in Tasks :
        /\ op[t] = "start" /\ op[u] = "stop"
        /\ Resumed(t) /\ Resumed(u)
        /\ jobs[t] = List(<<Dict([id |-> data.id])>>) /\ jobs[u] = jobs[t]
        /\ log[t] = log[u] /\ Levels(t) = <<"error">>

\* C3: a stop whose lookup reports WAITING or RUNNING issues exactly one
\* cloudsync.abort, with the argument [id] of the sensor's own job, and no cloudsync.sync.
C3_StopActiveAborts ==
    \A t \in Tasks :
        (op[t] = "stop" /\ Resumed(t) /\ LookupState(t) \in {Str("WAITING"), Str("RUNNING")})
        => /\ NumCalls(t, "cloudsync.abort") = 1
           /\ calls[t][Len(calls[t])] = Call("cloudsync.abort", <<data.id>>)
           /\ NumCalls(t, "cloudsync.sync") = 0

C3_Witness ==
    \E t \in Tasks :
        /\ op[t] = "stop" /\ pc[t] = "done" /\ outcome[t] = "returned"
        /\ LookupState(t) = Str("WAITING")
        /\ NumCalls(t, "cloudsync.abort") = 1

\* C4: every stop whose lookup reports a job that is not WAITING or RUNNING logs one
\* warning, returns normally and issues no cloudsync.abort; as long as the job has
\* never been active, no invocation at all has issued cloudsync.abort.
C4_StopIdempotent ==
    /\ \A t \in Tasks :
          (op[t] = "stop" /\ Resumed(t) /\ HasJob(jobs[t])
              /\ LookupState(t) \notin {Str("WAITING"), Str("RUNNING")})
          => /\ Levels(t) = <<"warning">>
             /\ pc[t] = "done" /\ outcome[t] = "returned"
             /\ NumCalls(t, "cloudsync.abort") = 0
    /\ ~everActive => \A t \in Tasks : NumCalls(t, "cloudsync.abort") = 0

C4_Witness ==
    /\ ~everActive
    /\ \A t \in Tasks :
          /\ op[t] = "stop" /\ pc[t] = "done"
          /\ LookupState(t) = Str("SUCCESS")
          /\ Levels(t) = <<"warning">>

\* C5: an invocation issues the cloudsync.query lookup first and once, then at most
\* one mutating call: never more than two calls, the second one only after the lookup
\* has been answered with a usable record, and never two calls in flight together.
C5_LookupThenAct ==
    \A t \in Tasks :
        /\ Len(calls[t]) <= 2
        /\ Cardinality(inflight[t]) <= 1
        /\ pc[t] # "idle" =>
              /\ calls[t][1].method = "cloudsync.query"
              /\ NumCalls(t, "cloudsync.query") = 1
        /\ Len(calls[t]) = 2 =>
              /\ calls[t][2].method \in {"cloudsync.sync", "cloudsync.abort"}
              /\ LookedUp(t) /\ HasJob(jobs[t])
              /\ 1 \notin inflight[t]

C5_Witness ==
    \E t, u \in Tasks :
        /\ Len(calls[t]) = 2 /\ inflight[t] = {2}
        /\ Len(calls[u]) = 1 /\ pc[u] = "done" /\ outcome[u] = "returned"

\* C7: whether the mutating call is issued follows from the state the invocation's own
\* lookup reported, whatever the cached record says: start issues cloudsync.sync exactly
\* when the looked-up job is not active, stop issues cloudsync.abort exactly when it is.
C7_DecidesOnLiveState ==
    \A t \in Tasks :
        (Resumed(t) /\ HasJob(jobs[t]))
        => /\ (NumCalls(t, "cloudsync.sync") = 1)
                <=> (op[t] = "start" /\ LookupState(t) \notin {Str("WAITING"), Str("RUNNING")})
           /\ (NumCalls(t, "cloudsync.abort") = 1)
                <=> (op[t] = "stop" /\ LookupState(t) \in {Str("WAITING"), Str("RUNNING")})

\* the cache says RUNNING, the lookup said SUCCESS, and the sync was issued
C7_Witness ==
    \E t \in Tasks :
        /\ op[t] = "start" /\ pc[t] = "await_mutate"
        /\ data.state = Str("RUNNING") /\ LookupState(t) = Str("SUCCESS")
        /\ NumCalls(t, "cloudsync.sync") = 1

\* C9: cloudsync.sync is never issued at a moment when the remote job is WAITING or
\* RUNNING, whatever the interleaving of the start invocations.
C9_NoDuplicateStart ==
    [][\A t \in Tasks :
          (NumCalls(t, "cloudsync.sync") = 0 /\ (NumCalls(t, "cloudsync.sync") = 1)')
          => ~RemoteActive(remote)]_vars

\* C10: a looked-up record whose `job` is no mapping, or a mapping without `state`,
\* counts as not active: start logs nothing and issues one cloudsync.sync with [id],
\* stop logs one warning and issues no cloudsync.abort; neither logs an error.
C10_StatelessJobIsInactive ==
    \A t \in Tasks :
        (Resumed(t) /\ StatelessJob(t))
        => /\ op[t] = "start" =>
                 /\ log[t] = <<>>
                 /\ calls[t] = <<Call("cloudsync.query", QueryArgs(data.id)),
                                 Call("cloudsync.sync", <<data.id>>)>>
           /\ op[t] = "stop" =>
                 /\ Levels(t) = <<"warning">>
                 /\ NoMutatingCall(t)
                 /\ outcome[t] = "returned"

C10_Witness ==
    \E t, u \in Tasks :
        /\ op[t] = "start" /\ op[u] = "stop"
        /\ Resumed(t) /\ Resumed(u)
        /\ jobs[t] = List(<<JobRecord(data.id, None)>>) /\ jobs[u] = jobs[t]
        /\ NumCalls(t, "cloudsync.sync") = 1 /\ Levels(u) = <<"warning">>

---------------------------------------------------------------------------
(* Vocabulary of the snapshot claim *)

ErrorBearing(r) == r = Dict([error |-> Str("Method call error")])

\* the payload snapshot invocation t must send: built from the record's name and the
\* clock instant at which the invocation began
ExpectedPayloads ==
    {Dict([dataset |-> Str(ds_data.name), name |-> Str("custom-" \o isoformat(n))]) :
        n \in 0..now}

\* C6: pool.snapshot.create is the first call, with {dataset: record["name"], name:
\* "custom-" + timestamp}; zfs.snapshot.create is issued only after the primary call
\* answered a mapping with an "error" key, at most once, with the same payload, and
\* whatever it answers the invocation returns; for any other primary answer, or an
\* exception from the primary call, the secondary call is never issued.
C6_SnapshotFallback ==
    \A t \in Tasks :
        /\ Len(s_calls[t]) <= 2
        /\ s_pc[t] # "idle" =>
              /\ s_calls[t][1].method = "pool.snapshot.create"
              /\ s_calls[t][1].args \in ExpectedPayloads
        /\ Len(s_calls[t]) = 2 =>
              /\ ErrorBearing(s_result[t])
              /\ s_calls[t][2] = Call("zfs.snapshot.create", s_calls[t][1].args)
        /\ (s_pc[t] \in {"await_secondary", "done"} /\ ErrorBearing(s_result[t]))
              => Len(s_calls[t]) = 2
        /\ (s_pc[t] = "done" /\ ~ErrorBearing(s_result[t])) => Len(s_calls[t]) = 1
        /\ s_second[t] # Unbound =>
              /\ s_pc[t] = "done" /\ s_outcome[t] = "returned"
              /\ Len(s_calls[t]) = 2

\* one invocation fell back after the clock had moved on and got an in-band error
\* from the fallback too; another one saw the primary call raise
C6_Witness ==
    \E t, u \in Tasks :
        /\ s_pc[t] = "done" /\ Len(s_calls[t]) = 2 /\ ErrorBearing(s_second[t])
        /\ s_calls[t][2].args.val["name"] = Str("custom-" \o isoformat(0)) /\ now > 0
        /\ s_outcome[u] = "raised" /\ s_result[u] = Unbound /\ Len(s_calls[u]) = 1

---------------------------------------------------------------------------
\* C8: native_unit_of_measurement returns none when no unit is configured (absent or
\* empty); for a unit "data__" + U it returns record[U] when U is a field of the
\* record and the configured string unchanged when it is not; a unit without the
\* prefix is returned unchanged.
C8_UnitOfMeasurement ==
    u_read # Unbound =>
        /\ (u_desc = None \/ u_desc = Str("")) => u_read = None
        /\ \A U \in {"", "unit", "missing"} :
              u_desc = Str("data__" \o U) =>
                  /\ U \in DOMAIN u_data.val => u_read = u_data.val[U]
                  /\ U \notin DOMAIN u_data.val => u_read = u_desc
        /\ u_desc \in {Str("GiB"), Str("data_"), Str("data_unit")} => u_read = u_desc

\* a dynamic unit whose field is absent came back as the configured string
C8_Witness ==
    /\ u_desc = Str("data__unit")
    /\ "unit" \notin DOMAIN u_data.val
    /\ u_read = Str("data__unit")

============================================================================
